---- MODULE Spec2Model ----
(***************************************************************************)
(* The DocumentStorage registry (solidity/document_issue.sol) as a state   *)
(* machine.  One action per external function; every action is one        *)
(* transaction of the ledger: it either runs to its end, or reverts and    *)
(* leaves the contract storage and the event log as they were.  The record *)
(* `call` holds the last transaction: the function, msg.sender, the        *)
(* arguments and the outcome (OK or the revert reason).                    *)
(***************************************************************************)
EXTENDS Integers, Sequences, FiniteSets, TLC

VARIABLES
  owners,          \* address[3] private owners
  initialized,     \* Initializable: the initializer has run
  issuerIndex,     \* mapping(address => uint256), 1-based slot, 0 = absent
  issuerList,      \* address[]
  revokerIndex,    \* mapping(address => uint256)
  revokerList,     \* address[]
  userDocuments,   \* mapping(uint256 => Document[])
  status,          \* ReentrancyGuard._status
  events,          \* the event log of the contract, oldest first
  executing,       \* the storeDocument or revokeDocument call in progress
  call             \* the last transaction and its outcome

storage == <<owners, initialized, issuerIndex, issuerList, revokerIndex,
             revokerList, userDocuments, status, executing>>
vars == <<owners, initialized, issuerIndex, issuerList, revokerIndex,
          revokerList, userDocuments, status, events, executing, call>>

-----------------------------------------------------------------------------
(* Bounds of the model *)

\* The log holds at most MaxLog events: no transaction starts once it is full.
MaxLog == 4

\* Addresses: 0 is address(0); 1..4 are accounts that can send a transaction.
ZeroAddress == 0
Accounts == {1, 2, 3, 4}
Address == {ZeroAddress} \cup Accounts

\* Subject identifiers (userId), content hashes (sha256Hash), references (ipfsCID).
UserIds == {1, 2}
Hashes == {1, 2}
CIDs == {"cidA", "cidB"}

-----------------------------------------------------------------------------
(* Outcomes: OK or the revert reason of the failing require *)

OK == "ok"
NotOwner == "Not an owner"
IndirectInitializationRejected == "Only the deployer can initialize"
AlreadyInitialized == "Initializable: contract is already initialized"
AlreadyAuthorized == "User already authorized"
NotAuthorized == "User is not authorized"
UnauthorizedStore == "Not authorized to store"
UnauthorizedRevoke == "Not authorized to revoke"
DuplicateDocument == "Document already stored"
ReentrancyError == "ReentrancyGuard: reentrant call"
PanicUnderflow == "Panic(0x11)"
PanicIndex == "Panic(0x32)"

\* ReentrancyGuard._status; its constructor leaves NOT_ENTERED.
NOT_ENTERED == 1
ENTERED == 2

-----------------------------------------------------------------------------
(* Records *)

Document(sha256Hash, ipfsCID) == [sha256Hash |-> sha256Hash, ipfsCID |-> ipfsCID]

DocumentStored(userId, sha256Hash, ipfsCID) ==
  [type |-> "DocumentStored", userId |-> userId, sha256Hash |-> sha256Hash,
   ipfsCID |-> ipfsCID]
DocumentRevoked(userId, sha256Hash, ipfsCID) ==
  [type |-> "DocumentRevoked", userId |-> userId, sha256Hash |-> sha256Hash,
   ipfsCID |-> ipfsCID]
IssuerAdded(issuer) == [type |-> "IssuerAdded", account |-> issuer]
IssuerRemoved(issuer) == [type |-> "IssuerRemoved", account |-> issuer]
RevokerAdded(revoker) == [type |-> "RevokerAdded", account |-> revoker]
RevokerRemoved(revoker) == [type |-> "RevokerRemoved", account |-> revoker]

\* A transaction: addrs are its address arguments, the rest its document arguments.
Tx(op, sender, addrs, userId, sha256Hash, ipfsCID) ==
  [op |-> op, sender |-> sender, addrs |-> addrs, userId |-> userId,
   sha256Hash |-> sha256Hash, ipfsCID |-> ipfsCID, err |-> OK]

\* The transaction reverts: nothing is persisted, nothing is logged.
Revert(tx, reason) ==
  /\ call' = [tx EXCEPT !.err = reason]
  /\ UNCHANGED <<storage, events, executing>>

\* No guarded call is in progress.  A call in progress is its transaction and
\* the status found on entry, which a revert restores.
NoCall == [tx |-> Tx("none", ZeroAddress, <<>>, 0, 0, ""), status |-> NOT_ENTERED]

\* The array element at a 0-based index.
At(list, i) == list[i + 1]

-----------------------------------------------------------------------------
Init ==
  /\ owners = <<ZeroAddress, ZeroAddress, ZeroAddress>>
  /\ initialized = FALSE
  /\ issuerIndex = [a \in Address |-> 0]
  /\ issuerList = <<>>
  /\ revokerIndex = [a \in Address |-> 0]
  /\ revokerList = <<>>
  /\ userDocuments = [u \in UserIds |-> <<>>]
  /\ status = NOT_ENTERED
  /\ events = <<>>
  /\ executing = NoCall
  /\ call = Tx("deploy", ZeroAddress, <<>>, 0, 0, "")

-----------------------------------------------------------------------------
(* Governance gate *)

\* Faulty variant of the gate: the third owner is forgotten.
onlyOwners_firstTwo(sender) ==
  sender = owners[1] \/ sender = owners[2]

\* Faulty variant of the gate: it is open while no first owner is set.
onlyOwners_orUnset(sender) ==
  \/ owners[1] = ZeroAddress
  \/ sender = owners[1] \/ sender = owners[2] \/ sender = owners[3]

onlyOwners(sender) ==
  sender = owners[1] \/ sender = owners[2] \/ sender = owners[3]

\* Faulty variants of initialize: the initializer guard is missing; the
\* comparison of msg.sender with tx.origin is missing.
initialize_repeatable(sender, origin, owner2, owner3) ==
  LET tx == Tx("initialize", sender, <<origin, owner2, owner3>>, 0, 0, "") IN
  IF sender # origin THEN Revert(tx, IndirectInitializationRejected)
  ELSE /\ initialized' = TRUE
       /\ owners' = <<sender, owner2, owner3>>
       /\ call' = tx
       /\ UNCHANGED <<issuerIndex, issuerList, revokerIndex, revokerList,
                      userDocuments, status, events, executing>>

initialize_relayed(sender, origin, owner2, owner3) ==
  LET tx == Tx("initialize", sender, <<origin, owner2, owner3>>, 0, 0, "") IN
  IF initialized THEN Revert(tx, AlreadyInitialized)
  ELSE /\ initialized' = TRUE
       /\ owners' = <<sender, owner2, owner3>>
       /\ call' = tx
       /\ UNCHANGED <<issuerIndex, issuerList, revokerIndex, revokerList,
                      userDocuments, status, events, executing>>

initialize(sender, origin, owner2, owner3) ==
  LET tx == Tx("initialize", sender, <<origin, owner2, owner3>>, 0, 0, "") IN
  IF initialized THEN Revert(tx, AlreadyInitialized)
  ELSE IF sender # origin THEN Revert(tx, IndirectInitializationRejected)
  ELSE /\ initialized' = TRUE
       /\ owners' = <<sender, owner2, owner3>>
       /\ call' = tx
       /\ UNCHANGED <<issuerIndex, issuerList, revokerIndex, revokerList,
                      userDocuments, status, events, executing>>

authorizeUpgrade(sender) ==
  LET tx == Tx("authorizeUpgrade", sender, <<>>, 0, 0, "") IN
  IF ~onlyOwners(sender) THEN Revert(tx, NotOwner)
  ELSE /\ call' = tx
       /\ UNCHANGED <<storage, events, executing>>

-----------------------------------------------------------------------------
(* Access control registry: issuers *)

\* Faulty variant: only the first slot of the list is compared.
issuerAbsent_firstSlotOnly(issuer) ==
  Len(issuerList) = 0 \/ At(issuerList, 0) # issuer

\* Faulty variant: a slot in the revoker list counts as well.
issuerAbsent_eitherList(issuer) ==
  /\ issuerIndex[issuer] = 0
  /\ revokerIndex[issuer] = 0
  /\ (Len(issuerList) = 0 \/ At(issuerList, 0) # issuer)

\* The require of addAuthorizedIssuer: the address has no slot.
issuerAbsent(issuer) ==
  /\ issuerIndex[issuer] = 0
  /\ (Len(issuerList) = 0 \/ At(issuerList, 0) # issuer)

addAuthorizedIssuer(sender, issuer) ==
  LET tx == Tx("addAuthorizedIssuer", sender, <<issuer>>, 0, 0, "") IN
  IF ~onlyOwners(sender) THEN Revert(tx, NotOwner)
  ELSE IF ~issuerAbsent(issuer) THEN Revert(tx, AlreadyAuthorized)
  ELSE /\ issuerIndex' = [issuerIndex EXCEPT ![issuer] = Len(issuerList) + 1]
       /\ issuerList' = Append(issuerList, issuer)
       /\ events' = Append(events, IssuerAdded(issuer))
       /\ call' = tx
       /\ UNCHANGED <<owners, initialized, revokerIndex, revokerList,
                      userDocuments, status, executing>>

\* Faulty variant: the moved element keeps its old index entry.
issuerSwapRemove_staleIndex(issuer) ==
  LET index == issuerIndex[issuer] - 1
      lastIndex == Len(issuerList) - 1
      swapped == IF index # lastIndex
                   THEN [issuerList EXCEPT ![index + 1] = At(issuerList, lastIndex)]
                   ELSE issuerList
  IN [list |-> SubSeq(swapped, 1, Len(swapped) - 1),
      index |-> [issuerIndex EXCEPT ![issuer] = 0]]

\* The swap-remove of removeAuthorizedIssuer: the list and the index map after it.
issuerSwapRemove(issuer) ==
  LET index == issuerIndex[issuer] - 1
      lastIndex == Len(issuerList) - 1
      swapped == IF index # lastIndex
                   THEN [issuerList EXCEPT ![index + 1] = At(issuerList, lastIndex)]
                   ELSE issuerList
      moved == IF index # lastIndex
                 THEN [issuerIndex EXCEPT ![At(swapped, index)] = index + 1]
                 ELSE issuerIndex
  IN [list |-> SubSeq(swapped, 1, Len(swapped) - 1),
      index |-> [moved EXCEPT ![issuer] = 0]]

\* Faulty variant of removeAuthorizedIssuer: the removal takes the member's
\* IssuerAdded events out of the log.
removeAuthorizedIssuer_dropsAdded(sender, issuer) ==
  LET tx == Tx("removeAuthorizedIssuer", sender, <<issuer>>, 0, 0, "") IN
  IF ~onlyOwners(sender) THEN Revert(tx, NotOwner)
  ELSE IF ~(issuerIndex[issuer] > 0) THEN Revert(tx, NotAuthorized)
  ELSE IF Len(issuerList) = 0 THEN Revert(tx, PanicUnderflow)
  ELSE IF issuerIndex[issuer] > Len(issuerList) THEN Revert(tx, PanicIndex)
  ELSE /\ issuerList' = issuerSwapRemove(issuer).list
       /\ issuerIndex' = issuerSwapRemove(issuer).index
       /\ events' = Append(SelectSeq(events, LAMBDA e : e # IssuerAdded(issuer)),
                           IssuerRemoved(issuer))
       /\ call' = tx
       /\ UNCHANGED <<owners, initialized, revokerIndex, revokerList,
                      userDocuments, status, executing>>

removeAuthorizedIssuer(sender, issuer) ==
  LET tx == Tx("removeAuthorizedIssuer", sender, <<issuer>>, 0, 0, "") IN
  IF ~onlyOwners(sender) THEN Revert(tx, NotOwner)
  ELSE IF ~(issuerIndex[issuer] > 0) THEN Revert(tx, NotAuthorized)
  ELSE IF Len(issuerList) = 0 THEN Revert(tx, PanicUnderflow)
  ELSE IF issuerIndex[issuer] > Len(issuerList) THEN Revert(tx, PanicIndex)
  ELSE /\ issuerList' = issuerSwapRemove(issuer).list
       /\ issuerIndex' = issuerSwapRemove(issuer).index
       /\ events' = Append(events, IssuerRemoved(issuer))
       /\ call' = tx
       /\ UNCHANGED <<owners, initialized, revokerIndex, revokerList,
                      userDocuments, status, executing>>

-----------------------------------------------------------------------------
(* Access control registry: revokers *)

\* The require of addAuthorizedRevoker: the address has no slot.
revokerAbsent(revoker) ==
  /\ revokerIndex[revoker] = 0
  /\ (Len(revokerList) = 0 \/ At(revokerList, 0) # revoker)

addAuthorizedRevoker(sender, revoker) ==
  LET tx == Tx("addAuthorizedRevoker", sender, <<revoker>>, 0, 0, "") IN
  IF ~onlyOwners(sender) THEN Revert(tx, NotOwner)
  ELSE IF ~revokerAbsent(revoker) THEN Revert(tx, AlreadyAuthorized)
  ELSE /\ revokerIndex' = [revokerIndex EXCEPT ![revoker] = Len(revokerList) + 1]
       /\ revokerList' = Append(revokerList, revoker)
       /\ events' = Append(events, RevokerAdded(revoker))
       /\ call' = tx
       /\ UNCHANGED <<owners, initialized, issuerIndex, issuerList,
                      userDocuments, status, executing>>

\* Faulty variant: the last element is popped without being moved into the
\* freed slot.
revokerSwapRemove_noSwap(revoker) ==
  [list |-> SubSeq(revokerList, 1, Len(revokerList) - 1),
   index |-> [revokerIndex EXCEPT ![revoker] = 0]]

\* The swap-remove of removeAuthorizedRevoker: the list and the index map after it.
revokerSwapRemove(revoker) ==
  LET index == revokerIndex[revoker] - 1
      lastIndex == Len(revokerList) - 1
      swapped == IF index # lastIndex
                   THEN [revokerList EXCEPT ![index + 1] = At(revokerList, lastIndex)]
                   ELSE revokerList
      moved == IF index # lastIndex
                 THEN [revokerIndex EXCEPT ![At(swapped, index)] = index + 1]
                 ELSE revokerIndex
  IN [list |-> SubSeq(swapped, 1, Len(swapped) - 1),
      index |-> [moved EXCEPT ![revoker] = 0]]

removeAuthorizedRevoker(sender, revoker) ==
  LET tx == Tx("removeAuthorizedRevoker", sender, <<revoker>>, 0, 0, "") IN
  IF ~onlyOwners(sender) THEN Revert(tx, NotOwner)
  ELSE IF ~(revokerIndex[revoker] > 0) THEN Revert(tx, NotAuthorized)
  ELSE IF Len(revokerList) = 0 THEN Revert(tx, PanicUnderflow)
  ELSE IF revokerIndex[revoker] > Len(revokerList) THEN Revert(tx, PanicIndex)
  ELSE /\ revokerList' = revokerSwapRemove(revoker).list
       /\ revokerIndex' = revokerSwapRemove(revoker).index
       /\ events' = Append(events, RevokerRemoved(revoker))
       /\ call' = tx
       /\ UNCHANGED <<owners, initialized, issuerIndex, issuerList,
                      userDocuments, status, executing>>

\* getAllAuthorizedIssuers / getAllAuthorizedRevokers
getAllAuthorizedIssuers == issuerList
getAllAuthorizedRevokers == revokerList

-----------------------------------------------------------------------------
(* Document store *)

\* Faulty variant: either delegated role is accepted.
canStore_anyRole(sender) ==
  \/ issuerIndex[sender] > 0
  \/ revokerIndex[sender] > 0
  \/ sender = owners[1]
  \/ sender = owners[2]
  \/ sender = owners[3]

\* The require of storeDocument on msg.sender.
canStore(sender) ==
  \/ issuerIndex[sender] > 0
  \/ sender = owners[1]
  \/ sender = owners[2]
  \/ sender = owners[3]

\* Faulty variant: either delegated role is accepted.
canRevoke_anyRole(sender) ==
  \/ revokerIndex[sender] > 0
  \/ issuerIndex[sender] > 0
  \/ sender = owners[1]
  \/ sender = owners[2]
  \/ sender = owners[3]

\* The require of revokeDocument on msg.sender.
canRevoke(sender) ==
  \/ revokerIndex[sender] > 0
  \/ sender = owners[1]
  \/ sender = owners[2]
  \/ sender = owners[3]

\* Faulty variants of the scan: it stops one record early; it reads docs[0] only.
alreadyStored_skipLast(docs, sha256Hash) ==
  \E i \in 0..(Len(docs) - 2) : At(docs, i).sha256Hash = sha256Hash

alreadyStored_firstOnly(docs, sha256Hash) ==
  Len(docs) > 0 /\ At(docs, 0).sha256Hash = sha256Hash

\* Faulty variant of the scan: a hash the log shows revoked counts as stored.
alreadyStored_everRevoked(docs, sha256Hash) ==
  \/ \E i \in 0..(Len(docs) - 1) : At(docs, i).sha256Hash = sha256Hash
  \/ \E k \in 1..Len(events) :
       events[k].type = "DocumentRevoked" /\ events[k].sha256Hash = sha256Hash

\* The duplicate scan of storeDocument: some docs[i].sha256Hash equals the hash.
alreadyStored(docs, sha256Hash) ==
  \E i \in 0..(Len(docs) - 1) : At(docs, i).sha256Hash = sha256Hash

\* The push of storeDocument.
pushDocument(docs, sha256Hash, ipfsCID) == Append(docs, Document(sha256Hash, ipfsCID))

\* Faulty variant of storeDocument: the event is logged before the duplicate
\* scan and stays in the log when the scan fails.
storeDocument_logsFirst(sender, userId, sha256Hash, ipfsCID) ==
  LET tx == Tx("storeDocument", sender, <<>>, userId, sha256Hash, ipfsCID)
      docs == userDocuments[userId]
  IN
  IF status = ENTERED THEN Revert(tx, ReentrancyError)
  ELSE IF ~canStore(sender) THEN Revert(tx, UnauthorizedStore)
  ELSE IF alreadyStored(docs, sha256Hash)
    THEN /\ events' = Append(events, DocumentStored(userId, sha256Hash, ipfsCID))
         /\ call' = [tx EXCEPT !.err = DuplicateDocument]
         /\ UNCHANGED <<storage, executing>>
  ELSE /\ userDocuments' =
            [userDocuments EXCEPT ![userId] = pushDocument(docs, sha256Hash, ipfsCID)]
       /\ events' = Append(events, DocumentStored(userId, sha256Hash, ipfsCID))
       /\ status' = NOT_ENTERED
       /\ call' = tx
       /\ UNCHANGED <<owners, initialized, issuerIndex, issuerList,
                      revokerIndex, revokerList, executing>>

storeDocument(sender, userId, sha256Hash, ipfsCID) ==
  LET tx == Tx("storeDocument", sender, <<>>, userId, sha256Hash, ipfsCID)
      docs == userDocuments[userId]
  IN
  IF status = ENTERED THEN Revert(tx, ReentrancyError)
  ELSE IF ~canStore(sender) THEN Revert(tx, UnauthorizedStore)
  ELSE IF alreadyStored(docs, sha256Hash) THEN Revert(tx, DuplicateDocument)
  ELSE /\ userDocuments' =
            [userDocuments EXCEPT ![userId] = pushDocument(docs, sha256Hash, ipfsCID)]
       /\ events' = Append(events, DocumentStored(userId, sha256Hash, ipfsCID))
       /\ status' = NOT_ENTERED
       /\ call' = tx
       /\ UNCHANGED <<owners, initialized, issuerIndex, issuerList,
                      revokerIndex, revokerList, executing>>

\* Faulty variant of the scan: without a match it ends on the last index.
RECURSIVE firstMatch_endsOnLast(_, _, _)
firstMatch_endsOnLast(docs, sha256Hash, i) ==
  IF Len(docs) = 0 THEN 0
  ELSE IF i >= Len(docs) - 1 THEN Len(docs) - 1
  ELSE IF At(docs, i).sha256Hash = sha256Hash THEN i
  ELSE firstMatch_endsOnLast(docs, sha256Hash, i + 1)

\* The scan of revokeDocument from index i: the first index whose hash matches,
\* or the length when there is none.
RECURSIVE firstMatch(_, _, _)
firstMatch(docs, sha256Hash, i) ==
  IF i >= Len(docs) THEN Len(docs)
  ELSE IF At(docs, i).sha256Hash = sha256Hash THEN i
  ELSE firstMatch(docs, sha256Hash, i + 1)

\* Faulty variant of the removal: the last record is popped without the copy.
swapPop_popOnly(docs, i) == SubSeq(docs, 1, Len(docs) - 1)

\* Faulty variant of the removal: the copy is made and the pop forgotten.
swapPop_noPop(docs, i) == [docs EXCEPT ![i + 1] = At(docs, Len(docs) - 1)]

\* The removal of revokeDocument at index i: docs[i] = docs[length - 1]; docs.pop().
swapPop(docs, i) ==
  LET swapped == [docs EXCEPT ![i + 1] = At(docs, Len(docs) - 1)]
  IN SubSeq(swapped, 1, Len(swapped) - 1)

\* Faulty variant of revokeDocument: the nonReentrant modifier is missing.
revokeDocument_unguarded(sender, userId, sha256Hash) ==
  LET tx == Tx("revokeDocument", sender, <<>>, userId, sha256Hash, "")
      docs == userDocuments[userId]
      i == firstMatch(docs, sha256Hash, 0)
  IN
  IF ~canRevoke(sender) THEN Revert(tx, UnauthorizedRevoke)
  ELSE /\ IF i < Len(docs)
            THEN /\ events' = Append(events,
                        DocumentRevoked(userId, At(docs, i).sha256Hash, At(docs, i).ipfsCID))
                 /\ userDocuments' = [userDocuments EXCEPT ![userId] = swapPop(docs, i)]
            ELSE UNCHANGED <<events, userDocuments>>
       /\ call' = tx
       /\ UNCHANGED <<owners, initialized, issuerIndex, issuerList,
                      revokerIndex, revokerList, status, executing>>

revokeDocument(sender, userId, sha256Hash) ==
  LET tx == Tx("revokeDocument", sender, <<>>, userId, sha256Hash, "")
      docs == userDocuments[userId]
      i == firstMatch(docs, sha256Hash, 0)
  IN
  IF status = ENTERED THEN Revert(tx, ReentrancyError)
  ELSE IF ~canRevoke(sender) THEN Revert(tx, UnauthorizedRevoke)
  ELSE /\ IF i < Len(docs)
            THEN /\ events' = Append(events,
                        DocumentRevoked(userId, At(docs, i).sha256Hash, At(docs, i).ipfsCID))
                 /\ userDocuments' = [userDocuments EXCEPT ![userId] = swapPop(docs, i)]
            ELSE UNCHANGED <<events, userDocuments>>
       /\ status' = NOT_ENTERED
       /\ call' = tx
       /\ UNCHANGED <<owners, initialized, issuerIndex, issuerList,
                      revokerIndex, revokerList, executing>>

\* getDocuments: the hashes and the references, index by index.
getDocuments(userId) ==
  LET docs == userDocuments[userId] IN
  <<[i \in 1..Len(docs) |-> docs[i].sha256Hash],
    [i \in 1..Len(docs) |-> docs[i].ipfsCID]>>

getDocumentCount(userId) == Len(userDocuments[userId])

-----------------------------------------------------------------------------
(* Specifications *)

\* The log has room: transactions are explored until it holds MaxLog events.
LogOpen == Len(events) < MaxLog

\* Spec: the document store under one owner set, with account 4 the only
\* account that is granted or denied the issuer and revoker roles.
Deployers == {1}
Owner2s == {2}
Owner3s == {3}
Origins == {1, 4}
Delegates == {4}
Governors == {1, 4}

Next ==
  \/ \E sender \in Deployers, origin \in Origins, owner2 \in Owner2s, owner3 \in Owner3s :
       LogOpen /\ initialize(sender, origin, owner2, owner3)
  \/ \E sender \in Governors : LogOpen /\ authorizeUpgrade(sender)
  \/ \E sender \in Governors, issuer \in Delegates :
       LogOpen /\ addAuthorizedIssuer(sender, issuer)
  \/ \E sender \in Governors, issuer \in Delegates :
       LogOpen /\ removeAuthorizedIssuer(sender, issuer)
  \/ \E sender \in Governors, revoker \in Delegates :
       LogOpen /\ addAuthorizedRevoker(sender, revoker)
  \/ \E sender \in Governors, revoker \in Delegates :
       LogOpen /\ removeAuthorizedRevoker(sender, revoker)
  \/ \E sender \in Accounts, userId \in UserIds, sha256Hash \in Hashes, ipfsCID \in CIDs :
       LogOpen /\ storeDocument(sender, userId, sha256Hash, ipfsCID)
  \/ \E sender \in Accounts, userId \in UserIds, sha256Hash \in Hashes :
       LogOpen /\ revokeDocument(sender, userId, sha256Hash)

Spec == Init /\ [][Next]_vars

\* SpecGov: the governance gate and the two authorization lists, for every
\* sender, over three candidate members and two choices of owners.
GovOwner2s == {1, 2}
GovOwner3s == {3}
Members == {2, 3, 4}

NextGov ==
  \/ \E sender \in Deployers, origin \in Origins, owner2 \in GovOwner2s, owner3 \in GovOwner3s :
       LogOpen /\ initialize(sender, origin, owner2, owner3)
  \/ \E sender \in Accounts : LogOpen /\ authorizeUpgrade(sender)
  \/ \E sender \in Accounts, issuer \in Members :
       LogOpen /\ addAuthorizedIssuer(sender, issuer)
  \/ \E sender \in Accounts, issuer \in Members :
       LogOpen /\ removeAuthorizedIssuer(sender, issuer)
  \/ \E sender \in Accounts, revoker \in Members :
       LogOpen /\ addAuthorizedRevoker(sender, revoker)
  \/ \E sender \in Accounts, revoker \in Members :
       LogOpen /\ removeAuthorizedRevoker(sender, revoker)

SpecGov == Init /\ [][NextGov]_vars
-----------------------------------------------------------------------------
(* The guarded functions step by step.  nonReentrant sets the status to    *)
(* ENTERED before the body of storeDocument and revokeDocument and to      *)
(* NOT_ENTERED after it.  SpecGuard runs a guarded call in two steps, the  *)
(* entry and the body with the exit, and offers calls of the two guarded   *)
(* functions in between.                                                   *)

\* nonReentrant, before the body.
enterGuarded(tx) ==
  /\ executing = NoCall
  /\ IF status = ENTERED THEN Revert(tx, ReentrancyError)
     ELSE /\ status' = ENTERED
          /\ executing' = [tx |-> tx, status |-> status]
          /\ UNCHANGED <<owners, initialized, issuerIndex, issuerList,
                         revokerIndex, revokerList, userDocuments, events, call>>

\* The body of the call in progress reverts: the status found on entry is back.
RevertGuarded(reason) ==
  /\ call' = [executing.tx EXCEPT !.err = reason]
  /\ status' = executing.status
  /\ executing' = NoCall
  /\ UNCHANGED <<owners, initialized, issuerIndex, issuerList, revokerIndex,
                 revokerList, userDocuments, events>>

\* Faulty variant of the exit: the status stays ENTERED after the body.
exitStatus_staysEntered == ENTERED

\* nonReentrant, after the body.
exitStatus == NOT_ENTERED

\* The body of storeDocument for the call in progress, and the exit.
finishStore ==
  LET tx == executing.tx
      docs == userDocuments[tx.userId]
  IN
  /\ tx.op = "storeDocument"
  /\ IF ~canStore(tx.sender) THEN RevertGuarded(UnauthorizedStore)
     ELSE IF alreadyStored(docs, tx.sha256Hash) THEN RevertGuarded(DuplicateDocument)
     ELSE /\ userDocuments' =
               [userDocuments EXCEPT
                  ![tx.userId] = pushDocument(docs, tx.sha256Hash, tx.ipfsCID)]
          /\ events' = Append(events,
                          DocumentStored(tx.userId, tx.sha256Hash, tx.ipfsCID))
          /\ status' = exitStatus
          /\ executing' = NoCall
          /\ call' = tx
          /\ UNCHANGED <<owners, initialized, issuerIndex, issuerList,
                         revokerIndex, revokerList>>

\* The body of revokeDocument for the call in progress, and the exit.
finishRevoke ==
  LET tx == executing.tx
      docs == userDocuments[tx.userId]
      i == firstMatch(docs, tx.sha256Hash, 0)
  IN
  /\ tx.op = "revokeDocument"
  /\ IF ~canRevoke(tx.sender) THEN RevertGuarded(UnauthorizedRevoke)
     ELSE /\ IF i < Len(docs)
               THEN /\ events' = Append(events,
                           DocumentRevoked(tx.userId, At(docs, i).sha256Hash,
                                           At(docs, i).ipfsCID))
                    /\ userDocuments' =
                         [userDocuments EXCEPT ![tx.userId] = swapPop(docs, i)]
               ELSE UNCHANGED <<events, userDocuments>>
          /\ status' = exitStatus
          /\ executing' = NoCall
          /\ call' = tx
          /\ UNCHANGED <<owners, initialized, issuerIndex, issuerList,
                         revokerIndex, revokerList>>

\* SpecGuard: the owner and account 4 send the guarded calls, for one hash and
\* one reference; between the entry and the exit of a call, each of them calls
\* each guarded function for each subject.
GuardSenders == {1, 4}
GuardHashes == {1}
GuardCIDs == {"cidA"}

NextGuard ==
  \/ \E sender \in Deployers, owner2 \in Owner2s, owner3 \in Owner3s :
       LogOpen /\ executing = NoCall /\ initialize(sender, sender, owner2, owner3)
  \/ \E sender \in Deployers, issuer \in Delegates :
       LogOpen /\ executing = NoCall /\ addAuthorizedIssuer(sender, issuer)
  \/ \E sender \in Deployers, revoker \in Delegates :
       LogOpen /\ executing = NoCall /\ addAuthorizedRevoker(sender, revoker)
  \/ \E sender \in GuardSenders, userId \in UserIds, sha256Hash \in GuardHashes,
        ipfsCID \in GuardCIDs :
       LogOpen /\ enterGuarded(Tx("storeDocument", sender, <<>>, userId, sha256Hash, ipfsCID))
  \/ \E sender \in GuardSenders, userId \in UserIds, sha256Hash \in GuardHashes :
       LogOpen /\ enterGuarded(Tx("revokeDocument", sender, <<>>, userId, sha256Hash, ""))
  \/ \E sender \in GuardSenders, userId \in UserIds, sha256Hash \in GuardHashes,
        ipfsCID \in GuardCIDs :
       executing # NoCall /\ storeDocument(sender, userId, sha256Hash, ipfsCID)
  \/ \E sender \in GuardSenders, userId \in UserIds, sha256Hash \in GuardHashes :
       executing # NoCall /\ revokeDocument(sender, userId, sha256Hash)
  \/ executing # NoCall /\ finishStore
  \/ executing # NoCall /\ finishRevoke

SpecGuard == Init /\ [][NextGuard]_vars

-----------------------------------------------------------------------------
(* Vocabulary of the properties *)

\* The Owner Set, and the members of a list as its enumeration shows them.
OwnerSet == {owners[1], owners[2], owners[3]}
Listed(list) == {list[i] : i \in 1..Len(list)}
isOwner(a) == a \in OwnerSet
isIssuer(a) == a \in Listed(getAllAuthorizedIssuers)
isRevoker(a) == a \in Listed(getAllAuthorizedRevokers)

\* The hashes a collection holds, and its records as (hash, ref) pairs.
HashesOf(docs) == {docs[i].sha256Hash : i \in 1..Len(docs)}
PairsOf(docs) == {<<docs[i].sha256Hash, docs[i].ipfsCID>> : i \in 1..Len(docs)}
\* getDocuments read as pairs: position i of the hashes with position i of the refs.
ReadPairs(userId) ==
  LET r == getDocuments(userId) IN {<<r[1][i], r[2][i]>> : i \in 1..Len(r[1])}

\* The step is a transaction of function op (call' is the transaction of the step).
Ran(op) == call'.op = op

-----------------------------------------------------------------------------
(* C1: in every reachable state, no subject's collection holds two records *)
(* with the same contentHash.                                              *)
C1_UniqueHashes ==
  \A u \in UserIds :
    \A i, j \in 1..Len(userDocuments[u]) :
      i # j => userDocuments[u][i].sha256Hash # userDocuments[u][j].sha256Hash

\* A collection holds two records again after one of its records was revoked.
C1_Witness ==
  \E u \in UserIds :
    /\ Len(userDocuments[u]) = 2
    /\ \E k \in 1..Len(events) :
         events[k].type = "DocumentRevoked" /\ events[k].userId = u

(* C2: a store transaction succeeds only if its sender is an owner or is   *)
(* in the issuer list; from any other sender it fails with Unauthorized    *)
(* and changes neither the storage nor the log.                            *)
C2_StoreAuthorized ==
  [][Ran("storeDocument") =>
       LET a == call'.sender IN
         /\ call'.err = OK => (isOwner(a) \/ isIssuer(a))
         /\ ~(isOwner(a) \/ isIssuer(a)) =>
              /\ call'.err = UnauthorizedStore
              /\ UNCHANGED <<storage, events>>]_vars

\* A former issuer, removed and now only a revoker, is refused a store.
C2_Witness ==
  /\ call.op = "storeDocument" /\ call.err = UnauthorizedStore
  /\ ~isOwner(call.sender) /\ isRevoker(call.sender)
  /\ \E i, j \in 1..Len(events) :
       /\ i < j
       /\ events[i] = IssuerAdded(call.sender)
       /\ events[j] = IssuerRemoved(call.sender)

(* C3: a revoke transaction removes a record only if its sender is an      *)
(* owner or is in the revoker list; from any other sender it fails with    *)
(* Unauthorized, the collections are unchanged and no event is emitted.    *)
C3_RevokeAuthorized ==
  [][Ran("revokeDocument") =>
       LET a == call'.sender IN
         /\ (call'.err = OK \/ userDocuments' # userDocuments) =>
              (isOwner(a) \/ isRevoker(a))
         /\ ~(isOwner(a) \/ isRevoker(a)) =>
              /\ call'.err = UnauthorizedRevoke
              /\ userDocuments' = userDocuments
              /\ events' = events]_vars

\* An issuer that is no revoker is refused the revocation of a stored document.
C3_Witness ==
  /\ call.op = "revokeDocument" /\ call.err = UnauthorizedRevoke
  /\ ~isOwner(call.sender) /\ isIssuer(call.sender)
  /\ call.sha256Hash \in HashesOf(userDocuments[call.userId])

(* C4: a governance transaction (add/remove issuer/revoker, the upgrade    *)
(* authorization) passes the owner gate iff its sender is one of the three *)
(* owners; any other sender is rejected with NotOwner and the lists stay.  *)
GovernanceOps ==
  {"addAuthorizedIssuer", "removeAuthorizedIssuer", "addAuthorizedRevoker",
   "removeAuthorizedRevoker", "authorizeUpgrade"}

C4_OwnerGate ==
  [][call'.op \in GovernanceOps =>
       LET a == call'.sender IN
         /\ (call'.err # NotOwner) <=>
              (a = owners[1] \/ a = owners[2] \/ a = owners[3])
         /\ call'.err = NotOwner =>
              UNCHANGED <<issuerIndex, issuerList, revokerIndex, revokerList>>]_vars

\* An account that is issuer and revoker, but no owner, is refused at the gate.
C4_Witness ==
  /\ call.op \in GovernanceOps /\ call.err = NotOwner
  /\ initialized /\ Cardinality(OwnerSet) = 3
  /\ isIssuer(call.sender) /\ isRevoker(call.sender)

(* C5: duplicate law.  A store transaction from an owner or issuer, for a  *)
(* subject whose collection already holds the hash, fails with             *)
(* DuplicateDocument whatever the reference, and the collection is as it   *)
(* was before.                                                             *)
C5_DuplicateRejected ==
  [][(/\ Ran("storeDocument")
      /\ isOwner(call'.sender) \/ isIssuer(call'.sender)
      /\ call'.sha256Hash \in HashesOf(userDocuments[call'.userId]))
     => /\ call'.err = DuplicateDocument
        /\ userDocuments' = userDocuments
        /\ events' = events]_vars

\* An issuer is refused a hash its subject holds as the second record, under
\* a reference other than the stored one.
C5_Witness ==
  /\ call.op = "storeDocument" /\ call.err = DuplicateDocument
  /\ isIssuer(call.sender) /\ ~isOwner(call.sender)
  /\ Len(userDocuments[call.userId]) = 2
  /\ userDocuments[call.userId][2].sha256Hash = call.sha256Hash
  /\ userDocuments[call.userId][2].ipfsCID # call.ipfsCID

(* C6: round trip.  After a successful store, getDocuments of the subject  *)
(* holds the pair (hash, ref) and getDocumentCount has grown by 1; after a *)
(* successful revoke of a held hash, getDocuments no longer holds the      *)
(* hash, getDocumentCount has dropped by 1, and every other record of the  *)
(* subject is still there.                                                 *)
C6_RoundTrip ==
  [][\A u \in UserIds, h \in Hashes :
       (call'.userId = u /\ call'.sha256Hash = h) =>
         LET before == PairsOf(userDocuments[u]) IN
         /\ (Ran("storeDocument") /\ call'.err = OK) =>
              /\ <<h, call'.ipfsCID>> \in ReadPairs(u)'
              /\ getDocumentCount(u)' = getDocumentCount(u) + 1
              /\ ReadPairs(u)' = before \cup {<<h, call'.ipfsCID>>}
         /\ (Ran("revokeDocument") /\ call'.err = OK
               /\ h \in HashesOf(userDocuments[u])) =>
              /\ \A p \in ReadPairs(u)' : p[1] # h
              /\ getDocumentCount(u)' = getDocumentCount(u) - 1
              /\ ReadPairs(u)' = {p \in before : p[1] # h}]_vars

\* The first of two records was revoked: the log shows it stored first, then
\* another hash stored, then it revoked, and the other record is what is left.
C6_Witness ==
  /\ call.op = "revokeDocument" /\ call.err = OK
  /\ \E k \in 3..Len(events) :
       /\ k = Len(events)
       /\ events[k].type = "DocumentRevoked"
       /\ events[k - 2] = DocumentStored(call.userId, call.sha256Hash, events[k].ipfsCID)
       /\ events[k - 1].type = "DocumentStored"
       /\ events[k - 1].userId = call.userId
       /\ events[k - 1].sha256Hash # call.sha256Hash
       /\ PairsOf(userDocuments[call.userId]) =
            {<<events[k - 1].sha256Hash, events[k - 1].ipfsCID>>}

(* C7: revoke-miss law.  A revoke transaction from an owner or revoker for *)
(* a hash the subject's collection does not hold succeeds, leaves every    *)
(* collection as it was and appends no event.                              *)
C7_RevokeMiss ==
  [][(/\ Ran("revokeDocument")
      /\ isOwner(call'.sender) \/ isRevoker(call'.sender)
      /\ call'.sha256Hash \notin HashesOf(userDocuments[call'.userId]))
     => /\ call'.err = OK
        /\ userDocuments' = userDocuments
        /\ events' = events]_vars

\* A revoker's revoke succeeded for a hash that was never revoked for the
\* subject and that the subject does not hold, while the subject holds another.
C7_Witness ==
  /\ call.op = "revokeDocument" /\ call.err = OK
  /\ isRevoker(call.sender) /\ ~isOwner(call.sender)
  /\ userDocuments[call.userId] # <<>>
  /\ call.sha256Hash \notin HashesOf(userDocuments[call.userId])
  /\ \A k \in 1..Len(events) :
       ~(/\ events[k].type = "DocumentRevoked"
         /\ events[k].userId = call.userId
         /\ events[k].sha256Hash = call.sha256Hash)

(* C8: an owner's add of an address that is not in the issuer (resp.       *)
(* revoker) list succeeds: the address becomes a member, is appended at    *)
(* the end of the sequence with position equal to the new length, and one  *)
(* Added event is emitted; an add of a current member fails with           *)
(* AlreadyAuthorized and leaves the list and its index map unchanged.      *)
C8_Add ==
  [][\A a \in Address :
       /\ (Ran("addAuthorizedIssuer") /\ call'.addrs = <<a>> /\ isOwner(call'.sender)) =>
            IF ~isIssuer(a)
              THEN /\ call'.err = OK
                   /\ isIssuer(a)'
                   /\ issuerIndex'[a] > 0
                   /\ issuerList' = Append(issuerList, a)
                   /\ issuerIndex'[a] = Len(issuerList')
                   /\ events' = Append(events, IssuerAdded(a))
              ELSE /\ call'.err = AlreadyAuthorized
                   /\ UNCHANGED <<issuerList, issuerIndex, events>>
       /\ (Ran("addAuthorizedRevoker") /\ call'.addrs = <<a>> /\ isOwner(call'.sender)) =>
            IF ~isRevoker(a)
              THEN /\ call'.err = OK
                   /\ isRevoker(a)'
                   /\ revokerIndex'[a] > 0
                   /\ revokerList' = Append(revokerList, a)
                   /\ revokerIndex'[a] = Len(revokerList')
                   /\ events' = Append(events, RevokerAdded(a))
              ELSE /\ call'.err = AlreadyAuthorized
                   /\ UNCHANGED <<revokerList, revokerIndex, events>>]_vars

\* An issuer that was removed is added again and sits at the end, in the second
\* position, behind a member that stayed.
C8_Witness ==
  /\ call.op = "addAuthorizedIssuer" /\ call.err = OK
  /\ Len(issuerList) = 2
  /\ call.addrs = <<issuerList[2]>>
  /\ events[Len(events)] = IssuerAdded(issuerList[2])
  /\ \E k \in 1..Len(events) : events[k] = IssuerRemoved(issuerList[2])

(* C9: an owner's remove of a member of the issuer (resp. revoker) list,   *)
(* at any position, makes it a non-member; the remaining members are      *)
(* exactly the earlier members without it and each still tests as a        *)
(* member; a remove of a non-member fails with NotAuthorized and changes   *)
(* nothing.                                                                *)
C9_Remove ==
  [][\A a \in Address :
       /\ (Ran("removeAuthorizedIssuer") /\ call'.addrs = <<a>> /\ isOwner(call'.sender)) =>
            IF isIssuer(a)
              THEN /\ call'.err = OK
                   /\ issuerIndex'[a] = 0
                   /\ ~isIssuer(a)'
                   /\ Listed(issuerList') = Listed(issuerList) \ {a}
                   /\ Len(issuerList') = Len(issuerList) - 1
                   /\ \A m \in Listed(issuerList) \ {a} : issuerIndex'[m] > 0
              ELSE /\ call'.err = NotAuthorized
                   /\ UNCHANGED <<storage, events>>
       /\ (Ran("removeAuthorizedRevoker") /\ call'.addrs = <<a>> /\ isOwner(call'.sender)) =>
            IF isRevoker(a)
              THEN /\ call'.err = OK
                   /\ revokerIndex'[a] = 0
                   /\ ~isRevoker(a)'
                   /\ Listed(revokerList') = Listed(revokerList) \ {a}
                   /\ Len(revokerList') = Len(revokerList) - 1
                   /\ \A m \in Listed(revokerList) \ {a} : revokerIndex'[m] > 0
              ELSE /\ call'.err = NotAuthorized
                   /\ UNCHANGED <<storage, events>>]_vars

\* The middle one of three revokers was removed: the log shows three adds and
\* the removal of the second, and the two others are what is listed.
C9_Witness ==
  /\ call.op = "removeAuthorizedRevoker" /\ call.err = OK
  /\ Len(events) = 4
  /\ \A k \in 1..3 : events[k].type = "RevokerAdded"
  /\ events[4] = RevokerRemoved(events[2].account)
  /\ Listed(revokerList) = {events[1].account, events[3].account}
  /\ Cardinality(Listed(revokerList)) = 2

(* C10: after initialize has succeeded, the Owner Set consists of exactly  *)
(* 3 pairwise distinct account addresses.                                  *)
C10_ThreeDistinctOwners ==
  initialized =>
    Cardinality(OwnerSet) = 3

(* C11: initialize is one-time.  Once it has succeeded, every initialize   *)
(* transaction fails with AlreadyInitialized, whoever sends it and with    *)
(* whatever arguments, and no transaction changes the owners any more.     *)
C11_InitializeOnce ==
  [][initialized =>
       /\ Ran("initialize") => call'.err = AlreadyInitialized
       /\ owners' = owners
       /\ initialized']_vars

\* After members were added, a direct initialize that names another second
\* owner is refused and the owners are those of the first call.
C11_Witness ==
  /\ call.op = "initialize" /\ call.err = AlreadyInitialized
  /\ call.sender = call.addrs[1]
  /\ call.addrs[2] # owners[2]
  /\ owners[1] = call.sender
  /\ Len(events) > 0

(* C12: on a registry that is not initialized, an initialize relayed       *)
(* through a contract (msg.sender differs from tx.origin) fails with       *)
(* IndirectInitializationRejected, sets no owner and leaves the registry   *)
(* uninitialized; a direct initialize then succeeds and sets the owners.   *)
C12_IndirectRejected ==
  [][(Ran("initialize") /\ ~initialized) =>
       IF call'.sender # call'.addrs[1]
         THEN /\ call'.err = IndirectInitializationRejected
              /\ ~initialized'
              /\ owners' = <<ZeroAddress, ZeroAddress, ZeroAddress>>
              /\ UNCHANGED <<storage, events>>
         ELSE /\ call'.err = OK
              /\ initialized'
              /\ owners' = <<call'.sender, call'.addrs[2], call'.addrs[3]>>]_vars

\* A relayed initialize was refused and the registry has no owner yet.
C12_Witness ==
  /\ call.op = "initialize" /\ call.err = IndirectInitializationRejected
  /\ call.sender # call.addrs[1]
  /\ ~initialized
  /\ owners = <<ZeroAddress, ZeroAddress, ZeroAddress>>

EventsOf(userId, sha256Hash) ==
  SelectSeq(events, LAMBDA e :
    /\ e.type \in {"DocumentStored", "DocumentRevoked"}
    /\ e.userId = userId
    /\ e.sha256Hash = sha256Hash)

(* C15: the log alone determines validity.  In every reachable state, for  *)
(* every subject s and hash h: h is in s's collection iff the log has an   *)
(* event for (s, h) and the latest is Stored; the Stored and Revoked       *)
(* events of (s, h) alternate, starting with Stored; and each Revoked      *)
(* event carries the contentRef of the Stored event it reverses.           *)
C15_LogDeterminesValidity ==
  \A s \in UserIds, h \in Hashes :
    LET es == EventsOf(s, h) IN
    /\ (h \in HashesOf(userDocuments[s])) <=>
         (Len(es) > 0 /\ es[Len(es)].type = "DocumentStored")
    /\ \A k \in 1..Len(es) :
         es[k].type = IF k % 2 = 1 THEN "DocumentStored" ELSE "DocumentRevoked"
    /\ \A k \in 2..Len(es) :
         es[k].type = "DocumentRevoked" => es[k].ipfsCID = es[k - 1].ipfsCID

\* One hash of a subject was stored, revoked and stored again and is held,
\* while the log also has an event of another document.
C15_Witness ==
  \E s \in UserIds, h \in Hashes :
    /\ Len(EventsOf(s, h)) = 3
    /\ h \in HashesOf(userDocuments[s])
    /\ Len(events) = 4
    /\ \A k \in 1..4 : events[k].type \in {"DocumentStored", "DocumentRevoked"}

LockStep(index, list) ==
  /\ \A a \in Address : index[a] # 0 <=> a \in Listed(list)
  /\ \A a \in Address :
       index[a] # 0 =>
         /\ 1 <= index[a]
         /\ index[a] <= Len(list)
         /\ At(list, index[a] - 1) = a
  /\ \A i, j \in 1..Len(list) : i # j => list[i] # list[j]
  /\ Len(list) = Cardinality({a \in Address : index[a] # 0})

(* C17: in every reachable state, for each of the two authorization lists  *)
(* the index map and the sequence are in lock-step: an address has a       *)
(* nonzero index entry k iff it occurs in the sequence, and then           *)
(* 1 <= k <= length and sequence[k-1] is the address; the sequence holds   *)
(* no address twice and is as long as there are nonzero index entries.     *)
C17_LockStep ==
  /\ LockStep(issuerIndex, issuerList)
  /\ LockStep(revokerIndex, revokerList)

\* The first of three issuers was removed: the last one took its slot, so the
\* sequence is no longer in the order of the additions.
C17_Witness ==
  /\ Len(events) = 4
  /\ \A k \in 1..3 : events[k].type = "IssuerAdded"
  /\ events[4] = IssuerRemoved(events[1].account)
  /\ issuerList = <<events[3].account, events[2].account>>
  /\ issuerIndex[events[3].account] = 1

(* C18: each write touches only its own component.  addIssuer and          *)
(* removeIssuer leave the revoker list, the owners and every collection    *)
(* unchanged, addRevoker and removeRevoker leave the issuer list, the      *)
(* owners and every collection unchanged, and an owner's add of an address *)
(* that is in the other list succeeds, making it a member of both.  store  *)
(* and revoke on a subject leave both lists, the owners and every other    *)
(* subject's collection unchanged, and a store of a hash that another      *)
(* subject holds succeeds, so that both hold it.                           *)
C18_Frame ==
  [][/\ call'.op \in {"addAuthorizedIssuer", "removeAuthorizedIssuer"} =>
          UNCHANGED <<revokerIndex, revokerList, owners, userDocuments>>
     /\ call'.op \in {"addAuthorizedRevoker", "removeAuthorizedRevoker"} =>
          UNCHANGED <<issuerIndex, issuerList, owners, userDocuments>>
     /\ \A a \in Address :
          /\ (/\ Ran("addAuthorizedIssuer") /\ call'.addrs = <<a>>
              /\ isOwner(call'.sender) /\ isRevoker(a) /\ ~isIssuer(a))
             => (call'.err = OK /\ isIssuer(a)' /\ isRevoker(a)')
          /\ (/\ Ran("addAuthorizedRevoker") /\ call'.addrs = <<a>>
              /\ isOwner(call'.sender) /\ isIssuer(a) /\ ~isRevoker(a))
             => (call'.err = OK /\ isIssuer(a)' /\ isRevoker(a)')
     /\ \A u \in UserIds :
          (call'.op \in {"storeDocument", "revokeDocument"} /\ call'.userId = u) =>
            /\ UNCHANGED <<issuerIndex, issuerList, revokerIndex, revokerList, owners>>
            /\ \A v \in UserIds \ {u} : userDocuments'[v] = userDocuments[v]
     /\ \A u \in UserIds, h \in Hashes :
          (/\ Ran("storeDocument") /\ call'.userId = u /\ call'.sha256Hash = h
           /\ isOwner(call'.sender) \/ isIssuer(call'.sender)
           /\ h \notin HashesOf(userDocuments[u])
           /\ \E v \in UserIds \ {u} : h \in HashesOf(userDocuments[v]))
          => /\ call'.err = OK
             /\ h \in HashesOf(userDocuments'[u])
             /\ \E v \in UserIds \ {u} : h \in HashesOf(userDocuments'[v])]_vars

\* One account is in both lists and one hash is held by both subjects.
C18_Witness ==
  /\ call.op = "storeDocument" /\ call.err = OK
  /\ \E a \in Accounts : isIssuer(a) /\ isRevoker(a) /\ ~isOwner(a)
  /\ \E h \in Hashes : \A u \in UserIds : h \in HashesOf(userDocuments[u])

(* C19: before initialize has succeeded no write succeeds.  For every      *)
(* sender other than address(0), the add and remove functions, the upgrade *)
(* authorization, store and revoke all fail, so both lists, every          *)
(* collection and the log are empty until initialization.                  *)
WriteOps ==
  GovernanceOps \cup {"storeDocument", "revokeDocument"}

C19_NothingBeforeInitialize ==
  ~initialized =>
    /\ call.op \in WriteOps =>
         call.err \in {NotOwner, UnauthorizedStore, UnauthorizedRevoke}
    /\ issuerList = <<>> /\ revokerList = <<>>
    /\ \A a \in Address : issuerIndex[a] = 0 /\ revokerIndex[a] = 0
    /\ \A u \in UserIds : userDocuments[u] = <<>>
    /\ events = <<>>

\* On the registry as deployed, a revoke was refused.
C19_Witness ==
  /\ ~initialized
  /\ call.op = "revokeDocument" /\ call.err = UnauthorizedRevoke
  /\ call.sender # ZeroAddress

(* C20: revocation is not permanent.  When the latest event of subject s   *)
(* and hash h is Revoked, a store of h for s by an owner or issuer         *)
(* succeeds with any contentRef: the pair is in s's collection again and   *)
(* one new Stored event is appended.                                       *)
C20_StoreAfterRevoke ==
  [][\A u \in UserIds, h \in Hashes :
       (/\ Ran("storeDocument") /\ call'.userId = u /\ call'.sha256Hash = h
        /\ isOwner(call'.sender) \/ isIssuer(call'.sender)
        /\ Len(EventsOf(u, h)) > 0
        /\ EventsOf(u, h)[Len(EventsOf(u, h))].type = "DocumentRevoked")
       => /\ call'.err = OK
          /\ <<h, call'.ipfsCID>> \in PairsOf(userDocuments'[u])
          /\ events' = Append(events, DocumentStored(u, h, call'.ipfsCID))]_vars

\* An issuer stored again, under another reference, a hash that had been stored
\* and revoked for the subject.
C20_Witness ==
  /\ call.op = "storeDocument" /\ call.err = OK
  /\ isIssuer(call.sender) /\ ~isOwner(call.sender)
  /\ LET es == EventsOf(call.userId, call.sha256Hash) IN
       /\ Len(es) = 3
       /\ es[2].type = "DocumentRevoked"
       /\ es[3] = DocumentStored(call.userId, call.sha256Hash, call.ipfsCID)
       /\ es[1].ipfsCID # call.ipfsCID
  /\ <<call.sha256Hash, call.ipfsCID>> \in PairsOf(userDocuments[call.userId])

\* The step is a call made while a guarded call is in progress.
Nested == executing # NoCall /\ executing' = executing

(* C14: while a store or revoke call is executing, a nested call into      *)
(* store or revoke, for any subject and from any sender, is rejected with  *)
(* ReentrancyError and changes nothing; the busy flag is set exactly while *)
(* such a call is executing, so it is clear after a call has ended, in     *)
(* success or in failure, and a call made then is never rejected with      *)
(* ReentrancyError.                                                        *)
C14_Reentrancy ==
  [][/\ (Nested /\ call'.op \in {"storeDocument", "revokeDocument"}) =>
          /\ call'.err = ReentrancyError
          /\ UNCHANGED <<storage, events>>
     /\ (executing = NoCall) <=> (status # ENTERED)
     /\ (executing' = NoCall) <=> (status' # ENTERED)
     /\ executing = NoCall => call'.err # ReentrancyError
     /\ executing' = NoCall => call'.err # ReentrancyError]_vars

\* While a store of the owner is executing, a revoke from another sender for
\* another subject was rejected, after an earlier guarded call had failed.
C14_Witness ==
  /\ executing # NoCall
  /\ executing.tx.op = "storeDocument"
  /\ call.op = "revokeDocument" /\ call.err = ReentrancyError
  /\ call.sender # executing.tx.sender
  /\ call.userId # executing.tx.userId
  /\ status = ENTERED
  /\ \E u \in UserIds : userDocuments[u] # <<>>

====
